---- MODULE Spec2Model ----
(***************************************************************************)
(* A model of sample_data.py: the JSONL record store (load/save), the      *)
(* composite sort key of a record id, the sampling of records together     *)
(* with their answers, and the two batch drivers (process_directory and    *)
(* main).                                                                  *)
(*                                                                         *)
(* A Python str is a sequence of one-character strings.  A record is       *)
(* [id |-> str, data |-> payload]: the "id" field and, as one opaque       *)
(* value, all the other fields of the JSON object.                         *)
(***************************************************************************)
EXTENDS Integers, Sequences, FiniteSets, TLC

VARIABLES
    idArg, keyRes,          \* a call of extract_numeric_id: argument, result
    saveArg, savedFile,     \* a call of save_jsonl_file: records, file written
    sampleArgs, sampleRes,  \* a call of sample_records_with_answers
    percentage,             \* main: args.percentage
    srcExists, srcDir,      \* the source directory: is it there, its entries
    answerDir,              \* its possible_answer/ files, by entry name
    extras,                 \* multi_turn_func_doc/ and README.md, source and copy
    sampleRate,             \* the ratio in use
    destExists, destDir,    \* the destination directory and the files written
    destAnswerDir,          \* its possible_answer/ files
    pc,                     \* where the driver is
    pending,                \* the entries the glob has not yielded yet
    loopRecords,            \* the driver's local variable `records`
    outcome,                \* what became of each entry
    readLog                 \* the source paths opened for reading

callVars == <<idArg, keyRes, saveArg, savedFile, sampleArgs, sampleRes>>

dirVars ==
    <<percentage, srcExists, srcDir, answerDir, extras, sampleRate, destExists,
      destDir, destAnswerDir, pc, pending, loopRecords, outcome, readLog>>

vars == <<callVars, dirVars>>

None == "None"

\* A call that has not been made yet, and the result of one that returned.
Pending == [status |-> "pending"]

Returned(value) == [status |-> "returned", value |-> value]

Raised(exc) == [status |-> "raised", exc |-> exc]

(***************************************************************************)
(* Characters.  Ascii lists the characters the model uses in code point    *)
(* order, so that CharCode orders characters as Python's str comparison    *)
(* does.                                                                   *)
(***************************************************************************)
Ascii ==
    << "+", "-", "0", "1", "2", "3", "4", "5", "6", "7", "8", "9", "_",
       "a", "b", "c", "d", "e", "f", "g", "h", "i", "j", "k", "l", "m",
       "n", "o", "p", "q", "r", "s", "t", "u", "v", "w", "x", "y", "z" >>

CharCode(c) == CHOOSE i \in 1..Len(Ascii) : Ascii[i] = c

isdigit(c) == c \in {"0", "1", "2", "3", "4", "5", "6", "7", "8", "9"}

isalpha(c) == CharCode(c) >= CharCode("a") /\ CharCode(c) <= CharCode("z")

DigitValue(c) == CharCode(c) - CharCode("0")

\* int(s) raises ValueError unless s is an optional sign followed by one or
\* more digits (no character of the model is whitespace, and a part cut at
\* "_" holds no "_").
IntBody(s) == IF s # <<>> /\ Head(s) \in {"+", "-"} THEN Tail(s) ELSE s

IntParses(s) ==
    /\ IntBody(s) # <<>>
    /\ \A i \in 1..Len(IntBody(s)) : isdigit(IntBody(s)[i])

RECURSIVE DigitsValue(_)
DigitsValue(s) ==
    IF s = <<>> THEN 0
    ELSE 10 * DigitsValue(SubSeq(s, 1, Len(s) - 1)) + DigitValue(s[Len(s)])

IntValue(s) ==
    IF Head(s) = "-" THEN 0 - DigitsValue(IntBody(s)) ELSE DigitsValue(IntBody(s))

\* id_str.split("_")
RECURSIVE Split(_)
Split(s) ==
    IF \A i \in 1..Len(s) : s[i] # "_" THEN <<s>>
    ELSE LET k == CHOOSE i \in 1..Len(s) :
                      s[i] = "_" /\ \A j \in 1..(i - 1) : s[j] # "_"
         IN  <<SubSeq(s, 1, k - 1)>> \o Split(SubSeq(s, k + 1, Len(s)))

\* "_".join(parts)
RECURSIVE Join(_)
Join(parts) ==
    IF parts = <<>> THEN <<>>
    ELSE IF Len(parts) = 1 THEN parts[1]
    ELSE parts[1] \o <<"_">> \o Join(Tail(parts))

\* "".join(filter(str.isdigit, s)) and "".join(filter(str.isalpha, s))
FilterDigits(s) == SelectSeq(s, isdigit)

FilterAlpha(s) == SelectSeq(s, isalpha)

\* A plausible slip: only the first part is kept as the prefix.
SplitPrefixFirstPartOnly(parts) == parts[1]

\* The prefix the split branch returns: "_".join(parts[:-1]).
SplitPrefix(parts) == Join(SubSeq(parts, 1, Len(parts) - 1))

extract_numeric_id(record) ==
    LET id_str == record.id
        parts  == Split(id_str)
        last   == parts[Len(parts)]
        digits == FilterDigits(id_str)
    IN  IF id_str = <<>> THEN << <<>>, 0 >>
        ELSE IF Len(parts) >= 2 /\ IntParses(last)
             THEN << SplitPrefix(parts), IntValue(last) >>
        ELSE IF IntParses(digits)
             THEN << FilterAlpha(id_str), IntValue(digits) >>
        ELSE << id_str, 0 >>

(***************************************************************************)
(* sorted(records, key=extract_numeric_id): the keys are (str, int) tuples, *)
(* compared lexicographically; a str compares by code point, a proper      *)
(* prefix first; sorted() is stable.                                       *)
(***************************************************************************)
RECURSIVE StrLess(_, _)
StrLess(a, b) ==
    IF b = <<>> THEN FALSE
    ELSE IF a = <<>> THEN TRUE
    ELSE IF Head(a) # Head(b) THEN CharCode(Head(a)) < CharCode(Head(b))
    ELSE StrLess(Tail(a), Tail(b))

\* A plausible slip: the numeric component is left out of the comparison.
KeyLessPrefixOnly(k1, k2) == StrLess(k1[1], k2[1])

KeyLess(k1, k2) ==
    \/ StrLess(k1[1], k2[1])
    \/ k1[1] = k2[1] /\ k1[2] < k2[2]

Front(s) == SubSeq(s, 1, Len(s) - 1)

Last(s) == s[Len(s)]

\* r goes behind every element whose key is not greater than its own.
RECURSIVE InsertSorted(_, _)
InsertSorted(s, r) ==
    IF s = <<>> THEN <<r>>
    ELSE IF KeyLess(extract_numeric_id(r), extract_numeric_id(Last(s)))
         THEN Append(InsertSorted(Front(s), r), Last(s))
    ELSE Append(s, r)

RECURSIVE sort_by_numeric_id(_)
sort_by_numeric_id(records) ==
    IF records = <<>> THEN <<>>
    ELSE InsertSorted(sort_by_numeric_id(Front(records)), Last(records))

(***************************************************************************)
(* Files.  The content of a JSONL file is the sequence of its lines; a     *)
(* line is the record it encodes, or Malformed when it is no JSON text.    *)
(***************************************************************************)
Malformed == [malformed |-> TRUE]

\* load_jsonl_file: the records, or the exception json.loads raises.
load_jsonl_file(lines) ==
    IF \E i \in 1..Len(lines) : lines[i] = Malformed
    THEN Raised("JSONDecodeError")
    ELSE Returned(lines)

\* save_jsonl_file: the lines written (the file is opened with "w", so they
\* replace whatever it held).
save_jsonl_file(records) == sort_by_numeric_id(records)

(***************************************************************************)
(* Sampling.  A ratio is the fraction num/den; the model draws ratios for  *)
(* which len * sample_ratio is exact in floating point, so that            *)
(* int(len * sample_ratio) is the integer quotient below.                  *)
(***************************************************************************)
Max(a, b) == IF a >= b THEN a ELSE b

Min(a, b) == IF a <= b THEN a ELSE b

\* max(1, int(len(population) * sample_ratio))
NumSamples(n, ratio) == Max(1, (n * ratio.num) \div ratio.den)

\* The draws random.sample can make: k distinct positions of a population
\* of n, in any order.  When k > n it draws nothing and raises.
Draws(n, k) ==
    IF k > n THEN {<<>>}
    ELSE {d \in [1..k -> 1..n] : \A i, j \in 1..k : i # j => d[i] # d[j]}

random_sample(population, k, draw) ==
    IF k > Len(population) \/ k < 0
    THEN Raised("ValueError")
    ELSE Returned([i \in 1..k |-> population[draw[i]]])

get_answer_ids(answers) == {answers[i].id : i \in 1..Len(answers)}

InIds(record, ids) == record.id \in ids

filter_records_with_answers(records, answer_ids) ==
    LET Keep(record) == InIds(record, answer_ids)
    IN  SelectSeq(records, Keep)

\* {answer["id"]: answer for answer in answers}: a later answer replaces an
\* earlier one with the same id.
AnswerMap(answers) ==
    [id \in get_answer_ids(answers) |->
        answers[CHOOSE i \in 1..Len(answers) :
                    /\ answers[i].id = id
                    /\ \A j \in (i + 1)..Len(answers) : answers[j].id # id]]

\* The names sample_records_with_answers binds (its parameters and the
\* targets of its assignments and loops), and the names the module binds.
SampleLocals ==
    {"records", "answers", "sample_ratio", "answer_ids", "valid_records",
     "answer_map", "num_samples", "sampled_records", "sampled_answers",
     "record", "min_len", "answer", "filtered_answers", "sorted_answers"}

ModuleGlobals ==
    {"argparse", "json", "os", "random", "shutil", "Path", "Any", "Dict",
     "List", "Union", "load_jsonl_file", "save_jsonl_file", "get_record_ids",
     "get_answer_ids", "filter_records_with_answers", "extract_numeric_id",
     "sort_by_numeric_id", "sample_records_with_answers",
     "process_directory", "main"}

NameIsBound(name) == name \in SampleLocals \cup ModuleGlobals

\* The result of a call: what it returned, or the exception it raised.
\* `sampled` is the value of sampled_records when the call ended.
SampleResult(status, exc, sampled, value) ==
    [status |-> status, exc |-> exc, sampled |-> sampled, value |-> value]

sample_records_with_answers(records, answers, sample_ratio, draw) ==
    LET answer_ids    == get_answer_ids(answers)
        valid_records == filter_records_with_answers(records, answer_ids)
        answer_map    == AnswerMap(answers)
        num_samples   == NumSamples(Len(valid_records), sample_ratio)
        drawn         == random_sample(valid_records, num_samples, draw)
    IN  IF drawn.status = "raised"
        THEN SampleResult("raised", drawn.exc, <<>>, <<>>)
        ELSE
        LET sorted_sample  == sort_by_numeric_id(drawn.value)
            Mapped(record) == record.id \in DOMAIN answer_map
            with_answer    == SelectSeq(sorted_sample, Mapped)
            found_answers  == [i \in 1..Len(with_answer) |->
                                  answer_map[with_answer[i].id]]
            min_len        == Min(Len(sorted_sample), Len(found_answers))
            sampled_records == SubSeq(sorted_sample, 1, min_len)
        IN  \* Line 122 reads sampled_ids once for each answer.
            IF answers # <<>> /\ ~NameIsBound("sampled_ids")
            THEN SampleResult("raised", "NameError", sampled_records, <<>>)
            ELSE SampleResult("returned", None, sampled_records,
                              <<sampled_records, sort_by_numeric_id(<<>>)>>)

(***************************************************************************)
(* The batch drivers.  One pass of the loop body of process_directory      *)
(* (lines 150-189) or of main (lines 228-267) over one file.               *)
(***************************************************************************)
Unbound == [bound |-> FALSE]

Bound(value) == [bound |-> TRUE, value |-> value]

Absent == [exists |-> FALSE]

Present(lines) == [exists |-> TRUE, lines |-> lines]

NotWritten == [written |-> FALSE]

Written(lines) == [written |-> TRUE, lines |-> lines]

\* file_path.suffix.lower()
Lower(suffix) ==
    CASE suffix = ".JSONL" -> ".jsonl"
      [] suffix = ".JSON" -> ".json"
      [] OTHER -> suffix

\* Lines 142-146: a regular file whose suffix is .json or .jsonl.
DirEligible(entry) ==
    entry.kind = "file" /\ Lower(entry.suffix) \in {".json", ".jsonl"}

\* Line 222-224: a regular file matched by the glob BFCL_v3_*.json.
MainEligible(entry) ==
    entry.kind = "file" /\ entry.bfcl /\ entry.suffix = ".json"

\* Line 152: process_directory loads the file only when it is a .jsonl file.
DirLoads(entry) == Lower(entry.suffix) = ".jsonl"

\* Line 230: main loads every file.
MainLoads(entry) == TRUE

\* The value of `records` after the load step, and the exception of that step.
LoadStep(loads, entry, recs) ==
    IF ~loads THEN [exc |-> None, records |-> recs]
    ELSE LET r == load_jsonl_file(entry.lines)
         IN  IF r.status = "raised"
             THEN [exc |-> r.exc, records |-> recs]
             ELSE [exc |-> None, records |-> Bound(r.value)]

\* The population the body draws from, once `records` and the answers are
\* loaded: the records with an answer, or all of them without an answers file.
Population(recs, answer) ==
    IF ~recs.bound THEN <<>>
    ELSE IF ~answer.exists THEN recs.value
    ELSE LET a == load_jsonl_file(answer.lines)
         IN  IF a.status = "raised" THEN <<>>
             ELSE filter_records_with_answers(recs.value, get_answer_ids(a.value))

BodyResult(recs, exc, dest, destAnswer, reads) ==
    [records |-> recs, exc |-> exc, dest |-> dest, destAnswer |-> destAnswer,
     reads |-> reads]

\* The loop body on one file.  `loads`: the load step runs; `sorts`: the
\* sample is sorted before it is saved (line 261); `draw`: what random.sample
\* draws; `writable`: open(path, "w") succeeds.
FileBody(loads, sorts, entry, answer, recs, rate, draw, writable) ==
    LET step  == LoadStep(loads, entry, recs)
        rd    == IF loads THEN {"data"} ELSE {}
        Fail(exc, reads) == BodyResult(step.records, exc, NotWritten, NotWritten, reads)
    IN  IF step.exc # None THEN Fail(step.exc, rd)
        ELSE IF answer.exists
        THEN LET a == load_jsonl_file(answer.lines)
                 rda == rd \cup {"answer"}
             IN  IF a.status = "raised" THEN Fail(a.exc, rda)
                 ELSE IF ~step.records.bound THEN Fail("UnboundLocalError", rda)
                 ELSE LET res == sample_records_with_answers(
                                     step.records.value, a.value, rate, draw)
                      IN  IF res.status = "raised" THEN Fail(res.exc, rda)
                          ELSE IF ~writable THEN Fail("OSError", rda)
                          ELSE BodyResult(step.records, None,
                                          Written(save_jsonl_file(res.value[1])),
                                          Written(save_jsonl_file(res.value[2])),
                                          rda)
        ELSE IF ~step.records.bound THEN Fail("UnboundLocalError", rd)
        ELSE LET n == Len(step.records.value)
                 s == random_sample(step.records.value, NumSamples(n, rate), draw)
             IN  IF s.status = "raised" THEN Fail(s.exc, rd)
                 ELSE IF ~writable THEN Fail("OSError", rd)
                 ELSE LET sampled == IF sorts THEN sort_by_numeric_id(s.value)
                                     ELSE s.value
                      IN  BodyResult(step.records, None,
                                     Written(save_jsonl_file(sampled)),
                                     NotWritten, rd)

\* A plausible slip: a guard that names the exceptions it expects.
CaughtDataErrorsOnly(exc) == exc \in {"ValueError", "JSONDecodeError"}

\* Lines 188 and 266: `except Exception` catches every exception the body
\* raises (each is a subclass of Exception).
Caught(exc) ==
    exc \in {"ValueError", "JSONDecodeError", "NameError", "UnboundLocalError",
             "OSError"}

\* A plausible slip: the destination is created before the source is checked.
DirCreatesDestAlways(exists) == TRUE

\* Lines 133-138: process_directory creates the destination only after it
\* has found the source directory.
DirCreatesDest(exists) == exists

\* A plausible slip: a percentage of 0 passes the check.
ValidRatioFromZero(ratio) == 0 <= ratio.num /\ ratio.num <= ratio.den

\* Line 208: 0 < sample_ratio <= 1
ValidRatio(ratio) == 0 < ratio.num /\ ratio.num <= ratio.den

(***************************************************************************)
(* Inputs.                                                                 *)
(***************************************************************************)
MaxIdLen == 5

MaxRecords == 3

IdChars == {"a", "b", "_", "0", "1", "-"}

RECURSIVE StrsOfLen(_, _)
StrsOfLen(S, n) ==
    IF n = 0 THEN {<<>>}
    ELSE {<<c>> \o s : c \in S, s \in StrsOfLen(S, n - 1)}

StrsUpTo(S, n) == UNION {StrsOfLen(S, k) : k \in 0..n}

Rec(id, data) == [id |-> id, data |-> data]

\* Ids whose keys order differently from the ids themselves, two ids with
\* one key, an id without a number and the empty id.
Id_a_2 == <<"a", "_", "2">>

Id_a_10 == <<"a", "_", "1", "0">>

Id_a_02 == <<"a", "_", "0", "2">>

Id_b_1 == <<"b", "_", "1">>

Id_ab == <<"a", "b">>

SortRecords ==
    {Rec(Id_a_2, "x"), Rec(Id_a_2, "y"), Rec(Id_a_10, "x"), Rec(Id_a_02, "x"),
     Rec(Id_b_1, "x"), Rec(Id_ab, "x"), Rec(<<>>, "x")}

Ratios == {[num |-> 1, den |-> 4], [num |-> 1, den |-> 2], [num |-> 1, den |-> 1]}

SampleIds == {Id_a_2, Id_a_10, Id_b_1}

Questions == {Rec(id, "question") : id \in SampleIds}

Answers == {Rec(id, "answer") : id \in SampleIds}

NumFiles == 2

Names == 1..NumFiles

\* The lines a source file can hold; its records carry the file's name.
FileLines(n) ==
    {<<>>, <<Malformed>>, <<Rec(Id_a_2, n)>>,
     <<Rec(Id_a_10, n), Rec(Id_a_2, n), Rec(Id_b_1, n)>>}

\* The answers files: none, one that answers a_2, one that answers no record.
AnswerFiles ==
    {Absent, Present(<<Rec(Id_a_2, "answer")>>), Present(<<Rec(Id_ab, "answer")>>)}

Entry(kind, bfcl, suffix, lines) ==
    [kind |-> kind, bfcl |-> bfcl, suffix |-> suffix, lines |-> lines]

\* What process_directory can find under a name: a .jsonl, .json or .JSONL
\* file, a file of another type, a directory.
DirEntries(n) ==
    {Entry("file", TRUE, sfx, l) : sfx \in {".jsonl", ".json"}, l \in FileLines(n)}
        \cup {Entry("file", TRUE, ".JSONL", <<Rec(Id_a_2, n)>>),
              Entry("file", TRUE, ".txt", <<>>), Entry("dir", TRUE, ".json", <<>>)}

\* What main can find: a BFCL_v3_*.json file, another .json file, a directory
\* of a matching name.
MainEntries(n) ==
    {Entry("file", TRUE, ".json", l) : l \in FileLines(n)}
        \cup {Entry("file", FALSE, ".json", <<>>), Entry("dir", TRUE, ".json", <<>>)}

DirRates == {[num |-> 1, den |-> 2], [num |-> 1, den |-> 1]}

Percentages == {0 - 50, 0, 50, 100, 150}

NoExtras == [doc |-> FALSE, readme |-> FALSE, docCopied |-> FALSE, readmeCopied |-> FALSE]

IdIdle == idArg = <<>> /\ keyRes = Pending

SaveIdle == saveArg = <<>> /\ savedFile = Pending

SampleIdle == sampleArgs = Pending /\ sampleRes = Pending

DriverFresh ==
    /\ destExists = FALSE
    /\ destDir = [n \in Names |-> NotWritten]
    /\ destAnswerDir = [n \in Names |-> NotWritten]
    /\ pc = "start"
    /\ pending = {}
    /\ loopRecords = Unbound
    /\ outcome = [n \in Names |-> "pending"]
    /\ readLog = {}

DriverIdle ==
    /\ percentage = 0
    /\ srcExists = FALSE
    /\ srcDir = <<>>
    /\ answerDir = <<>>
    /\ extras = NoExtras
    /\ sampleRate = [num |-> 1, den |-> 1]
    /\ DriverFresh

(***************************************************************************)
(* SpecId: one call of extract_numeric_id on any id.                       *)
(***************************************************************************)
IdInit ==
    /\ idArg \in StrsUpTo(IdChars, MaxIdLen)
    /\ keyRes = Pending
    /\ SaveIdle /\ SampleIdle /\ DriverIdle

CallExtractNumericId ==
    /\ keyRes = Pending
    /\ keyRes' = Returned(extract_numeric_id(Rec(idArg, None)))
    /\ UNCHANGED <<idArg, saveArg, savedFile, sampleArgs, sampleRes, dirVars>>

IdNext == CallExtractNumericId

SpecId == IdInit /\ [][IdNext]_vars

(***************************************************************************)
(* SpecSave: one call of save_jsonl_file on any sequence of records.       *)
(***************************************************************************)
SaveInit ==
    /\ saveArg \in StrsUpTo(SortRecords, MaxRecords)
    /\ savedFile = Pending
    /\ IdIdle /\ SampleIdle /\ DriverIdle

CallSaveJsonlFile ==
    /\ savedFile = Pending
    /\ savedFile' = Returned(save_jsonl_file(saveArg))
    /\ UNCHANGED <<idArg, keyRes, saveArg, sampleArgs, sampleRes, dirVars>>

SaveNext == CallSaveJsonlFile

SpecSave == SaveInit /\ [][SaveNext]_vars

(***************************************************************************)
(* SpecSample: one call of sample_records_with_answers.                    *)
(***************************************************************************)
SampleInit ==
    /\ sampleArgs \in [records : StrsUpTo(Questions, MaxRecords),
                       answers : StrsUpTo(Answers, MaxRecords),
                       ratio   : Ratios]
    /\ sampleRes = Pending
    /\ IdIdle /\ SaveIdle /\ DriverIdle

CallSampleRecordsWithAnswers ==
    /\ sampleRes = Pending
    /\ LET valid == filter_records_with_answers(
                        sampleArgs.records, get_answer_ids(sampleArgs.answers))
       IN  \E draw \in Draws(Len(valid), NumSamples(Len(valid), sampleArgs.ratio)) :
               sampleRes' = sample_records_with_answers(
                   sampleArgs.records, sampleArgs.answers, sampleArgs.ratio, draw)
    /\ UNCHANGED <<idArg, keyRes, saveArg, savedFile, sampleArgs, dirVars>>

SampleNext == CallSampleRecordsWithAnswers

SpecSample == SampleInit /\ [][SampleNext]_vars

(***************************************************************************)
(* SpecDir: one call of process_directory(src_dir, dest_dir, sample_rate). *)
(***************************************************************************)
DirInit ==
    /\ IdIdle /\ SaveIdle /\ SampleIdle
    /\ percentage = 0
    /\ extras = NoExtras
    /\ srcExists \in BOOLEAN
    /\ IF srcExists
       THEN /\ \E entries \in [Names -> UNION {DirEntries(n) : n \in Names}] :
                  /\ \A n \in Names : entries[n] \in DirEntries(n)
                  /\ srcDir = entries
            /\ answerDir \in [Names -> AnswerFiles]
            /\ \A n \in Names : ~DirEligible(srcDir[n]) => answerDir[n] = Absent
       ELSE srcDir = <<>> /\ answerDir = <<>>
    /\ sampleRate \in DirRates
    /\ DriverFresh

\* Lines 130-138: the source is checked, then the destination is created.
DirStart ==
    /\ pc = "start"
    /\ pc' = IF srcExists THEN "loop" ELSE "missing"
    /\ destExists' = (destExists \/ DirCreatesDest(srcExists))
    /\ pending' = DOMAIN srcDir
    /\ UNCHANGED <<callVars, percentage, srcExists, srcDir, answerDir, extras,
                   sampleRate, destDir, destAnswerDir, loopRecords, outcome,
                   readLog>>

\* Lines 142-146: an entry that is no .json or .jsonl file is passed over.
DirSkip(n) ==
    /\ pc = "loop"
    /\ n \in pending
    /\ ~DirEligible(srcDir[n])
    /\ pending' = pending \ {n}
    /\ outcome' = [outcome EXCEPT ![n] = "skipped"]
    /\ UNCHANGED <<callVars, percentage, srcExists, srcDir, answerDir, extras,
                   sampleRate, destExists, destDir, destAnswerDir, pc,
                   loopRecords, readLog>>

\* The effect of one pass of the loop body on the file n.
AfterBody(n, body) ==
    /\ loopRecords' = body.records
    /\ pending' = pending \ {n}
    /\ readLog' = readLog \cup {<<kind, n>> : kind \in body.reads}
    /\ destDir' = IF body.dest.written THEN [destDir EXCEPT ![n] = body.dest]
                  ELSE destDir
    /\ destAnswerDir' = IF body.destAnswer.written
                        THEN [destAnswerDir EXCEPT ![n] = body.destAnswer]
                        ELSE destAnswerDir
    /\ outcome' = [outcome EXCEPT ![n] = IF body.exc = None THEN "ok" ELSE body.exc]
    /\ pc' = IF body.exc # None /\ ~Caught(body.exc) THEN "raised" ELSE pc

\* The draws random.sample can make in the loop body on the file n.
DirDraws(n) ==
    LET recs == LoadStep(DirLoads(srcDir[n]), srcDir[n], loopRecords).records
        pop  == Population(recs, answerDir[n])
    IN  Draws(Len(pop), NumSamples(Len(pop), sampleRate))

\* Lines 148-189: the loop body on the next file the glob yields.
DirProcessFile(n) ==
    /\ pc = "loop"
    /\ n \in pending
    /\ DirEligible(srcDir[n])
    /\ \E draw \in DirDraws(n), writable \in BOOLEAN :
           AfterBody(n, FileBody(DirLoads(srcDir[n]), FALSE, srcDir[n],
                                 answerDir[n], loopRecords, sampleRate, draw,
                                 writable))
    /\ UNCHANGED <<callVars, percentage, srcExists, srcDir, answerDir, extras,
                   sampleRate, destExists>>

\* The glob is exhausted: process_directory returns.
DirReturn ==
    /\ pc = "loop"
    /\ pending = {}
    /\ pc' = "done"
    /\ UNCHANGED <<callVars, percentage, srcExists, srcDir, answerDir, extras,
                   sampleRate, destExists, destDir, destAnswerDir, pending,
                   loopRecords, outcome, readLog>>

DirNext ==
    \/ DirStart
    \/ \E n \in Names : DirSkip(n)
    \/ \E n \in Names : DirProcessFile(n)
    \/ DirReturn

SpecDir == DirInit /\ [][DirNext]_vars

(***************************************************************************)
(* SpecMain: one run of main() with --percentage.                          *)
(***************************************************************************)
MainInit ==
    /\ IdIdle /\ SaveIdle /\ SampleIdle
    /\ percentage \in Percentages
    /\ srcExists \in BOOLEAN
    /\ IF srcExists
       THEN /\ \E entries \in [Names -> UNION {MainEntries(n) : n \in Names}] :
                  /\ \A n \in Names : entries[n] \in MainEntries(n)
                  /\ srcDir = entries
            /\ answerDir \in [Names -> AnswerFiles]
            /\ \A n \in Names : ~MainEligible(srcDir[n]) => answerDir[n] = Absent
            /\ \E doc, readme \in BOOLEAN :
                  extras = [NoExtras EXCEPT !.doc = doc, !.readme = readme]
       ELSE srcDir = <<>> /\ answerDir = <<>> /\ extras = NoExtras
    /\ sampleRate = [num |-> 1, den |-> 1]
    /\ DriverFresh

\* Lines 205-219: the ratio is checked, then the destination is created.
MainStart ==
    /\ pc = "start"
    /\ LET sample_ratio == [num |-> percentage, den |-> 100]
       IN  IF ~ValidRatio(sample_ratio)
           THEN /\ pc' = "raised"
                /\ UNCHANGED <<sampleRate, destExists, pending>>
           ELSE /\ pc' = "loop"
                /\ sampleRate' = sample_ratio
                /\ destExists' = TRUE
                /\ pending' = DOMAIN srcDir
    /\ UNCHANGED <<callVars, percentage, srcExists, srcDir, answerDir, extras,
                   destDir, destAnswerDir, loopRecords, outcome, readLog>>

\* Lines 222-224: a name the glob does not match, or a directory.
MainSkip(n) ==
    /\ pc = "loop"
    /\ n \in pending
    /\ ~MainEligible(srcDir[n])
    /\ pending' = pending \ {n}
    /\ outcome' = [outcome EXCEPT ![n] = "skipped"]
    /\ UNCHANGED <<callVars, percentage, srcExists, srcDir, answerDir, extras,
                   sampleRate, destExists, destDir, destAnswerDir, pc,
                   loopRecords, readLog>>

\* Lines 226-267: the loop body on the next file the glob yields.
MainProcessFile(n) ==
    /\ pc = "loop"
    /\ n \in pending
    /\ MainEligible(srcDir[n])
    /\ LET loads == MainLoads(srcDir[n])
           recs  == LoadStep(loads, srcDir[n], loopRecords).records
           pop   == Population(recs, answerDir[n])
       IN  \E draw \in Draws(Len(pop), NumSamples(Len(pop), sampleRate)),
              writable \in BOOLEAN :
               AfterBody(n, FileBody(loads, TRUE, srcDir[n], answerDir[n],
                                     loopRecords, sampleRate, draw, writable))
    /\ UNCHANGED <<callVars, percentage, srcExists, srcDir, answerDir, extras,
                   sampleRate, destExists>>

\* Lines 269-282: multi_turn_func_doc/ and README.md are copied when the
\* source has them, and main returns.
MainCopyExtras ==
    /\ pc = "loop"
    /\ pending = {}
    /\ extras' = [extras EXCEPT !.docCopied = extras.doc,
                                !.readmeCopied = extras.readme]
    /\ pc' = "done"
    /\ UNCHANGED <<callVars, percentage, srcExists, srcDir, answerDir,
                   sampleRate, destExists, destDir, destAnswerDir, pending,
                   loopRecords, outcome, readLog>>

MainNext ==
    \/ MainStart
    \/ \E n \in Names : MainSkip(n)
    \/ \E n \in Names : MainProcessFile(n)
    \/ MainCopyExtras

SpecMain == MainInit /\ [][MainNext]_vars

(***************************************************************************)
(* Properties of extract_numeric_id (SpecId).                              *)
(***************************************************************************)
HasUnderscore(s) == \E i \in 1..Len(s) : s[i] = "_"

LastUnderscore(s) ==
    CHOOSE i \in 1..Len(s) : s[i] = "_" /\ \A j \in (i + 1)..Len(s) : s[j] # "_"

AfterLastUnderscore(s) == SubSeq(s, LastUnderscore(s) + 1, Len(s))

BeforeLastUnderscore(s) == SubSeq(s, 1, LastUnderscore(s) - 1)

HasDigit(s) == \E i \in 1..Len(s) : isdigit(s[i])

\* The key the rules of the sort key give for the id s.
RuleKey(s) ==
    IF s = <<>> THEN << <<>>, 0 >>
    ELSE IF HasUnderscore(s) /\ IntParses(AfterLastUnderscore(s))
         THEN << BeforeLastUnderscore(s), IntValue(AfterLastUnderscore(s)) >>
    ELSE IF HasDigit(s)
         THEN << SelectSeq(s, isalpha), DigitsValue(SelectSeq(s, isdigit)) >>
    ELSE << s, 0 >>

Id_exec_simple_84 ==
    <<"e", "x", "e", "c", "_", "s", "i", "m", "p", "l", "e", "_", "8", "4">>

Id_live_irrelevance_12 ==
    <<"l", "i", "v", "e", "_", "i", "r", "r", "e", "l", "e", "v", "a", "n",
      "c", "e", "_", "1", "2">>

Id_abc123 == <<"a", "b", "c", "1", "2", "3">>

\* C8: extract_numeric_id maps every id to the key the rules give: ("", 0)
\* for the empty id; (the parts before the last one joined by "_", the last
\* part) when there are two or more "_"-separated parts and the last parses
\* as an integer; otherwise (its letters, the number its digits form), or
\* (the id, 0) when it has no digit.  "exec_simple_84" gives
\* ("exec_simple", 84), "live_irrelevance_12" gives ("live_irrelevance", 12)
\* and "abc123" gives ("abc", 123).
C8_SortKeyRules ==
    /\ keyRes.status = "returned" => keyRes.value = RuleKey(idArg)
    /\ extract_numeric_id(Rec(Id_exec_simple_84, None))
           = << <<"e", "x", "e", "c", "_", "s", "i", "m", "p", "l", "e">>, 84 >>
    /\ extract_numeric_id(Rec(Id_live_irrelevance_12, None))
           = << <<"l", "i", "v", "e", "_", "i", "r", "r", "e", "l", "e", "v",
                  "a", "n", "c", "e">>, 12 >>
    /\ extract_numeric_id(Rec(Id_abc123, None)) = << <<"a", "b", "c">>, 123 >>

\* An id of three parts has been mapped to its two-part prefix and number.
C8_Witness ==
    /\ idArg = <<"a", "_", "b", "_", "1">>
    /\ keyRes.status = "returned"
    /\ keyRes.value = << <<"a", "_", "b">>, 1 >>

(***************************************************************************)
(* Properties of save_jsonl_file and sort_by_numeric_id (SpecSave).        *)
(***************************************************************************)
Range(s) == {s[i] : i \in 1..Len(s)}

Count(s, r) == Cardinality({i \in 1..Len(s) : s[i] = r})

IsPermutation(a, b) ==
    /\ Len(a) = Len(b)
    /\ \A r \in Range(a) \cup Range(b) : Count(a, r) = Count(b, r)

PrefixOf(record) == extract_numeric_id(record)[1]

NumericOf(record) == extract_numeric_id(record)[2]

\* Non-decreasing (prefix, numeric) order.
InKeyOrder(s) ==
    \A i, j \in 1..Len(s) :
        i < j =>
            /\ ~StrLess(PrefixOf(s[j]), PrefixOf(s[i]))
            /\ PrefixOf(s[i]) = PrefixOf(s[j]) => NumericOf(s[i]) <= NumericOf(s[j])

\* C9: the sequence save_jsonl_file writes is a permutation of its input in
\* non-decreasing sort key order (records of one prefix in ascending numeric
\* order), and sorting a sorted sequence again leaves its order as it is.
C9_SavedSortedPermutation ==
    savedFile.status = "returned" =>
        /\ IsPermutation(savedFile.value, saveArg)
        /\ InKeyOrder(savedFile.value)
        /\ sort_by_numeric_id(savedFile.value) = savedFile.value
        /\ InKeyOrder(saveArg) => savedFile.value = saveArg

\* a_10 has moved behind a_02 and a_2, which share a key and keep their order.
C9_Witness ==
    /\ saveArg = <<Rec(Id_a_10, "x"), Rec(Id_a_02, "x"), Rec(Id_a_2, "y")>>
    /\ savedFile.status = "returned"
    /\ savedFile.value = <<Rec(Id_a_02, "x"), Rec(Id_a_2, "y"), Rec(Id_a_10, "x")>>

(***************************************************************************)
(* Properties of sample_records_with_answers (SpecSample).                 *)
(***************************************************************************)
IdsOf(s) == {s[i].id : i \in 1..Len(s)}

MatchedPopulation ==
    filter_records_with_answers(sampleArgs.records,
                                get_answer_ids(sampleArgs.answers))

UniqueIds(s) == \A i, j \in 1..Len(s) : i # j => s[i].id # s[j].id

\* C2: a call on a non-empty answer-matched population returns sampled
\* records and sampled answers with the same set of ids, all of them ids of
\* the input answers.
C2_ReferentialIntegrity ==
    (sampleRes # Pending /\ MatchedPopulation # <<>>) =>
        /\ sampleRes.status = "returned"
        /\ IdsOf(sampleRes.value[1]) = IdsOf(sampleRes.value[2])
        /\ IdsOf(sampleRes.value[1]) \subseteq get_answer_ids(sampleArgs.answers)

\* C10: on collections with unique ids, a call on a non-empty answer-matched
\* population returns records and answers of one length with equal ids at
\* every position.
C10_PositionalAlignment ==
    (/\ sampleRes # Pending
     /\ UniqueIds(sampleArgs.records)
     /\ UniqueIds(sampleArgs.answers)
     /\ MatchedPopulation # <<>>) =>
        /\ sampleRes.status = "returned"
        /\ Len(sampleRes.value[1]) = Len(sampleRes.value[2])
        /\ \A i \in 1..Len(sampleRes.value[1]) :
               sampleRes.value[1][i].id = sampleRes.value[2][i].id

(***************************************************************************)
(* Properties of process_directory (SpecDir) and of main (SpecMain).       *)
(***************************************************************************)
Processed(n) == outcome[n] \notin {"pending", "skipped"}

WellFormed(lines) == load_jsonl_file(lines).status = "returned"

NothingWritten ==
    \A n \in Names : ~destDir[n].written /\ ~destAnswerDir[n].written

\* The population of the file n itself: its records, or those of them that
\* have an answer in its answers file.
OwnPopulation(n) == Population(Bound(srcDir[n].lines), answerDir[n])

\* C1: a sample written for a non-empty file without an answers file holds
\* max(1, floor(n * r)) records, n being the number of records of that file.
C1_SampleSize ==
    \A n \in Names :
        (/\ destDir[n].written
         /\ ~answerDir[n].exists
         /\ WellFormed(srcDir[n].lines)
         /\ srcDir[n].lines # <<>>) =>
            Len(destDir[n].lines)
                = Max(1, (Len(srcDir[n].lines) * sampleRate.num) \div sampleRate.den)

\* process_directory can take a step: it is at its start, or in the loop
\* with the glob exhausted (it returns), or with an entry left that it
\* passes over or whose body it can run.
DirCanStep ==
    \/ pc = "start"
    \/ /\ pc = "loop"
       /\ \/ pending = {}
          \/ \E n \in pending : ~DirEligible(srcDir[n]) \/ DirDraws(n) # {}

\* C3: no exception of a file's processing leaves process_directory: the
\* call goes on while entries remain and then returns, and when it has
\* returned every eligible file has been processed and every file processed
\* without an error has its sample in the destination.
C3_PerFileContainment ==
    /\ pc # "raised"
    /\ pc \in {"done", "missing"} \/ DirCanStep
    /\ pc = "done" =>
           \A n \in Names :
               /\ outcome[n] # "pending"
               /\ DirEligible(srcDir[n]) => Processed(n)
               /\ outcome[n] = "ok" => destDir[n].written

\* The call has returned after one file failed and another was sampled.
C3_Witness ==
    /\ pc = "done"
    /\ \E m, n \in Names :
           /\ outcome[m] \in {"JSONDecodeError", "ValueError", "NameError",
                              "UnboundLocalError", "OSError"}
           /\ outcome[n] = "ok"
           /\ destDir[n].written

\* C4: every record written under a file's name is a record of that source
\* file.
C4_FilesIndependent ==
    \A n \in Names :
        destDir[n].written =>
            \A i \in 1..Len(destDir[n].lines) :
                \E j \in 1..Len(srcDir[n].lines) :
                    srcDir[n].lines[j] = destDir[n].lines[i]

\* C5: with a percentage outside (0, 100] main raises before it touches
\* anything: no destination directory, no read, no write, no copy.
C5_InvalidRatioTouchesNothing ==
    ((percentage <= 0 \/ percentage > 100) /\ pc # "start") =>
        /\ pc = "raised"
        /\ ~destExists
        /\ readLog = {}
        /\ NothingWritten
        /\ ~extras.docCopied /\ ~extras.readmeCopied

\* main has raised on a percentage of 150 with files waiting in the source.
C5_Witness ==
    /\ percentage = 150
    /\ pc = "raised"
    /\ srcExists
    /\ \E n \in Names : MainEligible(srcDir[n]) /\ srcDir[n].lines # <<>>

\* C6: a processed file whose own population is empty ends in a contained
\* error, with no records file and no answers file written for it.
C6_EmptyPopulationContained ==
    \A n \in Names :
        (/\ Processed(n)
         /\ WellFormed(srcDir[n].lines)
         /\ answerDir[n].exists => WellFormed(answerDir[n].lines)
         /\ OwnPopulation(n) = <<>>) =>
            /\ pc # "raised"
            /\ outcome[n] # "ok"
            /\ ~destDir[n].written
            /\ ~destAnswerDir[n].written

\* C7: without a source directory process_directory returns at once: it
\* creates no destination, reads nothing, writes nothing, and takes no
\* further step.
C7_MissingSourceTouchesNothing ==
    (~srcExists /\ pc # "start") =>
        /\ pc = "missing"
        /\ ~destExists
        /\ readLog = {}
        /\ NothingWritten
        /\ ~ENABLED DirNext

\* process_directory has returned for want of a source directory.
C7_Witness == ~srcExists /\ pc = "missing" /\ ~destExists

====
